---------------------------- MODULE Spec2Model ----------------------------
(***************************************************************************)
(* Streaming ingestion pipeline of data/upsert_properties.py together with *)
(* the normalisation helpers of data/python/utils.py.                      *)
(*                                                                         *)
(* JSON values are modelled as records [t, s, n]: t is the Python type of  *)
(* the value as ijson yields it ("none", "str", "num" for int, "dec" for   *)
(* decimal.Decimal, "big" for an int beyond the range of float), s the     *)
(* characters of a string, n the numeric value.  Python numbers are        *)
(* records [ty, v]: ty is "int", "float" or "nan" (the float nan).         *)
(* Strings are sequences of one-character strings so that strip() and      *)
(* float() are computed rather than assumed.                               *)
(***************************************************************************)
EXTENDS Integers, Sequences, FiniteSets, TLC

(***************************************************************************)
(* Bounds of the model.                                                    *)
(***************************************************************************)
\* Total number of records the stream parsers yield over one run.
MaxRecords == 6

\* Capacity used when the pipeline is explored with every failure enabled.
\* The code reads BATCH_SIZE only in `len(vector_batch) >= BATCH_SIZE` and
\* in the slice `[:BATCH_SIZE]`; every pipeline action takes the capacity
\* as a parameter, SmallBatch for Spec and BATCH_SIZE for SpecNominal.
SmallBatch == 3

\* Records yielded under SpecNominal (two full batches and a remainder).
NominalRecords == 104

\* Records yielded under SpecLive, where whole behaviours are checked.
LiveRecords == 4

\* datetime.now().year at the time clean_document is called.
current_year == 2026

(***************************************************************************)
(* Program constants.                                                      *)
(***************************************************************************)
BATCH_SIZE == 50

\* The `files` list of upsert_properties has four entries.
NumFiles == 4

(***************************************************************************)
(* JSON values                                                             *)
(***************************************************************************)
Whitespace == {" "}

NoneV == [t |-> "none", s |-> <<>>, n |-> 0]

StrV(chars) == [t |-> "str", s |-> chars, n |-> 0]

NumV(k) == [t |-> "num", s |-> <<>>, n |-> k]

DecV(k) == [t |-> "dec", s |-> <<>>, n |-> k]

\* An int too large for float(): float() raises OverflowError on it.
BigV == [t |-> "big", s |-> <<>>, n |-> 0]

\* Python numbers.
PyInt(k) == [ty |-> "int", v |-> k]

PyFloat(k) == [ty |-> "float", v |-> k]

NaN == [ty |-> "nan", v |-> 0]

\* a < b, a > b and a == b on Python numbers: all false on nan.
PyLt(a, b) == a.ty # "nan" /\ b.ty # "nan" /\ a.v < b.v

PyGt(a, b) == a.ty # "nan" /\ b.ty # "nan" /\ a.v > b.v

PyEq(a, b) == a.ty # "nan" /\ b.ty # "nan" /\ a.v = b.v

Unknown == <<"U", "n", "k", "n", "o", "w", "n">>

Legacy == <<"L", "e", "g", "a", "c", "y">>

RECURSIVE lstrip(_)
lstrip(chars) ==
    IF chars = <<>> THEN chars
    ELSE IF Head(chars) \in Whitespace THEN lstrip(Tail(chars))
    ELSE chars

RECURSIVE rstrip(_)
rstrip(chars) ==
    IF chars = <<>> THEN chars
    ELSE IF chars[Len(chars)] \in Whitespace
         THEN rstrip(SubSeq(chars, 1, Len(chars) - 1))
    ELSE chars

strip(chars) == rstrip(lstrip(chars))

\* Mutant: the test `and val.strip()` is missing, a blank string is kept.
safe_str_KeepsBlank(val, fallback) ==
    IF val.t = "str" THEN strip(val.s) ELSE fallback

\* utils.safe_str: the stripped string, or the fallback (a character
\* sequence) when val is not a string or is blank.
safe_str(val, fallback) ==
    IF val.t = "str" /\ strip(val.s) # <<>> THEN strip(val.s) ELSE fallback

Digits == <<"0", "1", "2", "3", "4", "5", "6", "7", "8", "9">>

IsDigit(c) == \E d \in 1..10 : Digits[d] = c

DigitVal(c) == (CHOOSE d \in 1..10 : Digits[d] = c) - 1

RECURSIVE DigitsValue(_, _)
DigitsValue(chars, acc) ==
    IF chars = <<>> THEN acc
    ELSE DigitsValue(Tail(chars), 10 * acc + DigitVal(Head(chars)))

\* The unsigned part of a numeric literal: one or more decimal digits.
IsDigitString(chars) ==
    /\ chars # <<>>
    /\ \A i \in 1..Len(chars) : IsDigit(chars[i])

\* "nan" in any letter case.
IsNanLiteral(chars) ==
    /\ Len(chars) = 3
    /\ chars[1] \in {"n", "N"} /\ chars[2] \in {"a", "A"} /\ chars[3] \in {"n", "N"}

Unsigned(body) == IF Head(body) \in {"-", "+"} THEN Tail(body) ELSE body

\* The exception float(val) raises, "none" when it returns.  int and
\* Decimal convert, an int beyond the float range raises OverflowError,
\* None raises TypeError, a str converts when, stripped, it is an
\* optionally signed run of digits or nan and raises ValueError otherwise
\* (literals with a point, an exponent or "inf" are not among the inputs).
FloatError(val) ==
    IF val.t \in {"num", "dec"} THEN "none"
    ELSE IF val.t = "big" THEN "OverflowError"
    ELSE IF val.t = "none" THEN "TypeError"
    ELSE LET body == strip(val.s)
         IN  IF /\ body # <<>>
                /\ Unsigned(body) # <<>>
                /\ (IsDigitString(Unsigned(body)) \/ IsNanLiteral(Unsigned(body)))
             THEN "none"
             ELSE "ValueError"

FloatOk(val) == FloatError(val) = "none"

\* float(val) when it returns.
Float(val) ==
    IF val.t \in {"num", "dec"} THEN PyFloat(val.n)
    ELSE LET body == strip(val.s)
         IN  IF IsNanLiteral(Unsigned(body)) THEN NaN
             ELSE IF Head(body) = "-" THEN PyFloat(0 - DigitsValue(Tail(body), 0))
             ELSE PyFloat(DigitsValue(Unsigned(body), 0))

\* Absent bound of safe_num (min_val=None / max_val=None).
NoBound == [given |-> FALSE, v |-> 0]

Bound(k) == [given |-> TRUE, v |-> k]

\* safe_num catches ValueError and TypeError only: any other exception of
\* float() leaves the function.
SafeNumRaises(val) == FloatError(val) \notin {"none", "ValueError", "TypeError"}

\* utils.safe_num when it returns: the converted number, or the fallback
\* when conversion fails or the number lies outside the given bounds.
safe_num(val, fallback, min_val, max_val) ==
    IF ~FloatOk(val) THEN fallback
    ELSE LET n == Float(val)
         IN  IF \/ (min_val.given /\ PyLt(n, PyInt(min_val.v)))
                \/ (max_val.given /\ PyGt(n, PyInt(max_val.v)))
             THEN fallback
             ELSE n

(***************************************************************************)
(* Raw and cleaned listings                                                *)
(*                                                                         *)
(* A raw record is what ijson yields for one element of the top-level      *)
(* array.  doc.t is "map" for a JSON object and "other" for anything else. *)
(* A key that is missing is NoneV, which is what doc.get(key) returns for  *)
(* it; only for "address" does the code pass a default, so the address     *)
(* distinguishes "absent" (default {} is used), "map" and "other" (null, a *)
(* string, a number, a list: a value without a get method).                *)
(***************************************************************************)
AddrKeys == {"streetAddress", "city", "state", "zipcode",
             "neighborhood", "community", "subdivision"}

EmptyAddr == [t |-> "absent", m |-> [k \in AddrKeys |-> NoneV]]

OtherAddr == [t |-> "other", m |-> [k \in AddrKeys |-> NoneV]]

MapAddr(m) == [t |-> "map", m |-> m]

NumericKeys == {"zpid", "bedrooms", "bathrooms", "price", "yearBuilt",
                "latitude", "longitude", "livingArea"}

\* clean_document raises: AttributeError from doc.get on a non-mapping
\* record (line 24) or from address.get on a non-mapping address (line
\* 35), or the exception that leaves one of its safe_num calls.
CleanRaises(doc) ==
    \/ doc.t # "map"
    \/ doc.address.t \notin {"map", "absent"}
    \/ \E k \in NumericKeys : SafeNumRaises(doc[k])

\* Mutant: the right operand is never used.
PyOr_First(a, b) == a

\* `a or b` on Python strings.
PyOr(a, b) == IF a # <<>> THEN a ELSE b

\* utils.clean_document, for a record on which it does not raise.
clean_document(doc) ==
    LET y == safe_num(doc.yearBuilt, PyInt(0), NoBound, NoBound)
        year_built == IF PyLt(y, PyInt(1800)) \/ PyGt(y, PyInt(current_year + 1))
                      THEN PyInt(0)
                      ELSE y
        address == doc.address.m
    IN  [zpid |-> safe_num(doc.zpid, PyInt(0), NoBound, NoBound),
         city |-> PyOr(safe_str(doc.city, <<>>), safe_str(address.city, Unknown)),
         state |-> PyOr(safe_str(doc.state, <<>>), safe_str(address.state, Unknown)),
         homeStatus |-> safe_str(doc.homeStatus, Unknown),
         address |->
            [streetAddress |-> safe_str(address.streetAddress,
                                        safe_str(doc.streetAddress, Unknown)),
             city |-> safe_str(address.city, safe_str(doc.city, Unknown)),
             state |-> safe_str(address.state, safe_str(doc.state, Unknown)),
             zipcode |-> safe_str(address.zipcode, safe_str(doc.zipcode, Unknown)),
             neighborhood |-> address.neighborhood,
             community |-> address.community,
             subdivision |-> address.subdivision],
         bedrooms |-> safe_num(doc.bedrooms, PyInt(0), Bound(0), Bound(20)),
         bathrooms |-> safe_num(doc.bathrooms, PyInt(0), Bound(0), Bound(20)),
         price |-> safe_num(doc.price, PyInt(0), Bound(10000), Bound(10000000)),
         yearBuilt |-> year_built,
         latitude |-> safe_num(doc.latitude, PyInt(0), NoBound, NoBound),
         longitude |-> safe_num(doc.longitude, PyInt(0), NoBound, NoBound),
         livingArea |-> safe_num(doc.livingArea, PyInt(0), Bound(100), Bound(20000)),
         homeType |-> safe_str(doc.homeType, Unknown),
         listingDataSource |-> safe_str(doc.listingDataSource, Legacy),
         description |-> safe_str(doc.description, Unknown)]

\* Mutant: the test of the zipcode is missing.
GateRejects_NoZipcode(clean_doc) ==
    \/ clean_doc.city = Unknown
    \/ clean_doc.state = Unknown
    \/ clean_doc.address.streetAddress = Unknown
    \/ PyEq(clean_doc.zpid, PyInt(0))

\* The condition of the `if` at process_file_streaming lines 58-64: the
\* cleaned record is skipped.
GateRejects(clean_doc) ==
    \/ clean_doc.city = Unknown
    \/ clean_doc.state = Unknown
    \/ clean_doc.address.streetAddress = Unknown
    \/ clean_doc.address.zipcode = Unknown
    \/ PyEq(clean_doc.zpid, PyInt(0))

(***************************************************************************)
(* Text rendering: str() of a float, json.dumps, the embedding text        *)
(***************************************************************************)
RECURSIVE NatToChars(_)
NatToChars(k) ==
    IF k < 10 THEN <<Digits[k + 1]>>
    ELSE NatToChars(k \div 10) \o <<Digits[(k % 10) + 1]>>

IntToChars(k) == IF k < 0 THEN <<"-">> \o NatToChars(0 - k) ELSE NatToChars(k)

\* str(x) of a Python number: "7" for an int, "7.0" for a float with an
\* integral value, "nan".
PyStr(x) ==
    IF x.ty = "nan" THEN <<"n", "a", "n">>
    ELSE IF x.ty = "int" THEN IntToChars(x.v)
    ELSE IntToChars(x.v) \o <<".", "0">>

\* json.dumps accepts None, str and int; decimal.Decimal raises TypeError.
JsonSerializable(val) == val.t # "dec"

JsonValue(val) ==
    IF val.t = "none" THEN <<"null">>
    ELSE IF val.t = "str" THEN <<"\"">> \o val.s \o <<"\"">>
    ELSE IntToChars(val.n)

\* json.dumps(clean_doc["address"]) raises on a passthrough Decimal.
MetadataRaises(clean_doc) ==
    \E k \in {"neighborhood", "community", "subdivision"} :
        ~JsonSerializable(clean_doc.address[k])

\* json.dumps of the cleaned address, keys in insertion order.
JsonDumpsAddress(a) ==
    <<"{", "\"streetAddress\": ", "\"">> \o a.streetAddress \o
    <<"\"", ", ", "\"city\": ", "\"">> \o a.city \o
    <<"\"", ", ", "\"state\": ", "\"">> \o a.state \o
    <<"\"", ", ", "\"zipcode\": ", "\"">> \o a.zipcode \o
    <<"\"", ", ", "\"neighborhood\": ">> \o JsonValue(a.neighborhood) \o
    <<", ", "\"community\": ">> \o JsonValue(a.community) \o
    <<", ", "\"subdivision\": ">> \o JsonValue(a.subdivision) \o <<"}">>

\* utils.create_metadata.
create_metadata(clean_doc) ==
    [zpid |-> clean_doc.zpid,
     city |-> clean_doc.city,
     state |-> clean_doc.state,
     homeStatus |-> clean_doc.homeStatus,
     address |-> JsonDumpsAddress(clean_doc.address),
     bedrooms |-> clean_doc.bedrooms,
     bathrooms |-> clean_doc.bathrooms,
     price |-> clean_doc.price,
     yearBuilt |-> clean_doc.yearBuilt,
     latitude |-> clean_doc.latitude,
     longitude |-> clean_doc.longitude,
     livingArea |-> clean_doc.livingArea,
     homeType |-> clean_doc.homeType,
     listingDataSource |-> clean_doc.listingDataSource,
     description |-> clean_doc.description]

\* The f-string of process_file_streaming lines 68-74.
ComposeText(clean_doc) ==
    <<"Property at ">> \o clean_doc.address.streetAddress \o <<", ">> \o
    clean_doc.address.city \o <<", ">> \o clean_doc.address.state \o <<" (">> \o
    clean_doc.address.zipcode \o <<"). Price: $">> \o PyStr(clean_doc.price) \o
    <<". Beds: ">> \o PyStr(clean_doc.bedrooms) \o
    <<", Baths: ">> \o PyStr(clean_doc.bathrooms) \o
    <<". Built in ">> \o PyStr(clean_doc.yearBuilt) \o <<". ">> \o
    clean_doc.description

\* The dict built at process_file_streaming lines 79-83.  `rec` is not a
\* key of the dict: it stands for the identity of the Python object (the
\* number of the read that created it), so that two records with equal
\* contents are still two vectors.
MakeVector(clean_doc, embedding, rec) ==
    [id |-> PyStr(clean_doc.zpid),
     values |-> embedding,
     metadata |-> create_metadata(clean_doc),
     rec |-> rec]

(***************************************************************************)
(* Inputs of a run                                                         *)
(***************************************************************************)
A_City == <<"A", "u", "s">>

A_State == <<"T", "X">>

A_Street == <<"1", " ", "E", "l", "m">>

A_Zip == <<"7", "8">>

NoAddrFields == [k \in AddrKeys |-> NoneV]

\* A record without any key.
BlankDoc ==
    [t |-> "map", zpid |-> NoneV, city |-> NoneV, state |-> NoneV,
     streetAddress |-> NoneV, zipcode |-> NoneV, homeStatus |-> NoneV,
     address |-> EmptyAddr, bedrooms |-> NoneV, bathrooms |-> NoneV,
     price |-> NoneV, yearBuilt |-> NoneV, latitude |-> NoneV,
     longitude |-> NoneV, livingArea |-> NoneV, homeType |-> NoneV,
     listingDataSource |-> NoneV, description |-> NoneV]

\* A complete listing whose identity fields sit inside "address".
NestedDoc ==
    [BlankDoc EXCEPT
        !.zpid = NumV(7), !.price = NumV(250000), !.bedrooms = NumV(3),
        !.bathrooms = StrV(<<"2">>), !.yearBuilt = NumV(1999),
        !.address = MapAddr([NoAddrFields EXCEPT
            !.streetAddress = StrV(<<" ">> \o A_Street),
            !.city = StrV(A_City), !.state = StrV(A_State),
            !.zipcode = StrV(A_Zip)])]

\* A complete listing without "address": every identity field top-level.
FlatDoc ==
    [BlankDoc EXCEPT
        !.zpid = StrV(<<"1", "2">>), !.city = StrV(A_City \o <<" ">>),
        !.state = StrV(A_State), !.streetAddress = StrV(A_Street),
        !.zipcode = StrV(A_Zip), !.price = NumV(9999)]

\* The records a stream may yield: accepted ones, ones the gate rejects
\* (zpid 0, zpid not numeric, no city anywhere, blank zipcode), ones on
\* which clean_document raises (address null, record not an object) and
\* one whose address carries a Decimal that json.dumps cannot encode.
StreamDocs ==
    {NestedDoc, FlatDoc,
     [NestedDoc EXCEPT !.zpid = NumV(0)],
     [FlatDoc EXCEPT !.zpid = StrV(<<"n", "/", "a">>)],
     [FlatDoc EXCEPT !.city = NoneV],
     [NestedDoc EXCEPT !.address.m.zipcode = StrV(<<" ", " ">>)],
     [NestedDoc EXCEPT !.address = OtherAddr],
     [BlankDoc EXCEPT !.t = "other"],
     [NestedDoc EXCEPT !.address.m.neighborhood = DecV(4)]}

\* The vectors the embedding service may answer with.
Embeddings == {<<1, 0>>}

\* What one exploration is run with: the flush capacity, the number of
\* records the parsers yield in total, the records they may yield, and
\* whether the external calls and the parsers may fail.
FullRun == [batch |-> SmallBatch, records |-> MaxRecords,
            docs |-> StreamDocs, faults |-> TRUE]

LiveRun == [batch |-> SmallBatch, records |-> LiveRecords,
            docs |-> StreamDocs, faults |-> TRUE]

NominalRun == [batch |-> BATCH_SIZE, records |-> NominalRecords,
               docs |-> {NestedDoc}, faults |-> FALSE]

(***************************************************************************)
(* State of a run of upsert_properties.py                                  *)
(***************************************************************************)
VARIABLES
    env,           \* the configuration variables that are set and not empty
    pc,            \* "load": the modules are being initialised; "aborted":
                   \* the process exited during that; "open": about to
                   \* open files[file]; "stream": inside the for loop of
                   \* process_file_streaming; "drain": after the loop over
                   \* files; "done": the process exited from __main__
    file,          \* 1-based index in `files` of the current file
    nread,         \* number of records the parsers have yielded so far
    vector_batch,  \* the list created at upsert_properties line 106
    upserts,       \* the index.upsert requests issued so far, in order
    embed_calls,   \* number of palm.Embedding.create requests issued
    appended,      \* every vector line 84 has appended, in order
    opened,        \* the files open() has been called on, in order
    log,           \* the lines logged by the latest step
    exit_code,     \* <<>> while running, then <<status>>
    fn,            \* the function a call specification applies ("none"
                   \* in the specifications of a whole run)
    input,         \* the arguments it is applied to
    output         \* how far the call has come and what it produced

vars == <<env, pc, file, nread, vector_batch, upserts, embed_calls, appended, opened,
          log, exit_code, fn, input, output>>

\* The variables of a run and those of a single call.
runvars == <<env, pc, file, nread, vector_batch, upserts, embed_calls, appended,
             opened, log, exit_code>>

purevars == <<fn, input, output>>

\* The variables pinecone_client.py requires (line 11).
PineconeKeys == {"PINECONE_API_KEY", "PINECONE_ENVIRONMENT", "PINECONE_INDEX"}

\* The variable upsert_properties.py requires (line 16).
GoogleKeys == {"GOOGLE_AI_API_KEY"}

ConfigKeys == PineconeKeys \cup GoogleKeys

\* No call specification is running.
NoCall == fn = "none" /\ input = <<>> /\ output = <<>>

Init ==
    /\ NoCall
    /\ env \in SUBSET ConfigKeys
    /\ pc = "load"
    /\ file = 1
    /\ nread = 0
    /\ vector_batch = <<>>
    /\ upserts = <<>>
    /\ embed_calls = 0
    /\ appended = <<>>
    /\ opened = <<>>
    /\ log = <<>>
    /\ exit_code = <<>>

Line(msg, arg) == [msg |-> msg, arg |-> arg]

\* vector_batch[:BATCH_SIZE]
FirstBatch(batch, cap) ==
    SubSeq(batch, 1, IF Len(batch) < cap THEN Len(batch) ELSE cap)

\* Mutant: the deletion starts one vector late.
DelFirstBatch_OffByOne(batch, cap) == SubSeq(batch, cap, Len(batch))

\* del vector_batch[:BATCH_SIZE]
DelFirstBatch(batch, cap) == SubSeq(batch, cap + 1, Len(batch))

\* Mutant: the flush waits for one vector more than the capacity.
BatchFull_Strict(batch, cap) == Len(batch) > cap

\* len(vector_batch) >= BATCH_SIZE
BatchFull(batch, cap) == Len(batch) >= cap

\* An index.upsert request: the vectors passed, whether the call returned
\* (ok) or raised, and whether it is the end-of-run call of line 118.
Request(vectors, ok, final) == [vectors |-> vectors, ok |-> ok, final |-> final]

\* The next iteration of `for file_name in files`, or the code after it.
AfterFile(f) == IF f + 1 > NumFiles THEN "drain" ELSE "open"

(***************************************************************************)
(* Module initialisation: pinecone_client.py lines 5-15 (run by the import *)
(* of upsert_properties.py line 11), then upsert_properties.py lines 13-19 *)
(***************************************************************************)
\* Mutant: only the two API keys are required.
ConfigComplete_KeysOnly(e) == {"PINECONE_API_KEY", "GOOGLE_AI_API_KEY"} \subseteq e

\* Neither `if not all([...])` (pinecone_client.py line 11) nor
\* `if not GOOGLE_AI_API_KEY` (upsert_properties.py line 16) fires.
ConfigComplete(e) == PineconeKeys \subseteq e /\ GoogleKeys \subseteq e

\* The status of a process ended by sys.exit(1) or by an uncaught exception.
ExitOnError == 1

\* Every check passes and the clients are set up; __main__ calls
\* upsert_properties.
LoadModules(run) ==
    /\ pc = "load"
    /\ ConfigComplete(env)
    /\ pc' = "open"
    /\ log' = <<>>
    /\ UNCHANGED <<file, nread, vector_batch, upserts, embed_calls, appended, opened,
                   exit_code, env, purevars>>

\* A Pinecone variable is missing: pinecone_client.py line 12 raises and
\* nothing catches it.  Otherwise GOOGLE_AI_API_KEY is missing: line 17
\* logs and line 18 exits.
ConfigMissing(run) ==
    /\ pc = "load"
    /\ ~ConfigComplete(env)
    /\ pc' = "aborted"
    /\ exit_code' = <<ExitOnError>>
    /\ log' = IF PineconeKeys \subseteq env
              THEN <<Line("GOOGLE_AI_API_KEY is not set in .env", "")>>
              ELSE <<Line("Traceback", "One or more Pinecone environment variables are missing.")>>
    /\ UNCHANGED <<file, nread, vector_batch, upserts, embed_calls, appended, opened, env, purevars>>

\* pinecone.init, pinecone.Index or palm.configure raises: nothing
\* catches an exception during the imports.
ClientInitFails(run) ==
    /\ run.faults
    /\ pc = "load"
    /\ ConfigComplete(env)
    /\ pc' = "aborted"
    /\ exit_code' = <<ExitOnError>>
    /\ log' = <<Line("Traceback", "client")>>
    /\ UNCHANGED <<file, nread, vector_batch, upserts, embed_calls, appended, opened, env, purevars>>

(***************************************************************************)
(* upsert_properties: the loop over `files` (lines 108-114)                *)
(***************************************************************************)
\* open() succeeds and ijson.items is set up (lines 110, 52-53).
OpenFile(run) ==
    /\ pc = "open"
    /\ pc' = "stream"
    /\ opened' = Append(opened, file)
    /\ log' = <<Line("Processing file", "")>>
    /\ UNCHANGED <<file, nread, vector_batch, upserts, embed_calls, exit_code, appended, env, purevars>>

\* Mutant: no handler around the call of line 112, so the exception of
\* open() reaches the handler of line 128.
OpenFails_Propagates(run) ==
    /\ run.faults
    /\ pc = "open"
    /\ opened' = Append(opened, file)
    /\ pc' = "done"
    /\ exit_code' = <<ExitOnError>>
    /\ log' = <<Line("Processing file", ""),
                Line("Error in upserting properties data", "open")>>
    /\ UNCHANGED <<file, nread, vector_batch, upserts, embed_calls, appended, env, purevars>>

\* open() raises; the exception leaves process_file_streaming and is
\* caught at line 113.  The assignment of line 112 does not happen, but
\* vector_batch still names the same list.
OpenFails(run) ==
    /\ run.faults
    /\ pc = "open"
    /\ opened' = Append(opened, file)
    /\ pc' = AfterFile(file)
    /\ file' = file + 1
    /\ log' = <<Line("Processing file", ""), Line("Error processing file", "open")>>
    /\ UNCHANGED <<nread, vector_batch, upserts, embed_calls, exit_code, appended, env, purevars>>

\* Mutant: the caller's list is rebound to a fresh one when a file fails.
StreamFails_LosesBatch(run) ==
    /\ run.faults
    /\ pc = "stream"
    /\ pc' = AfterFile(file)
    /\ file' = file + 1
    /\ vector_batch' = <<>>
    /\ log' = <<Line("Error processing file", "parser")>>
    /\ UNCHANGED <<nread, upserts, embed_calls, opened, exit_code, appended, env, purevars>>

\* The parser raises while advancing (malformed JSON): the `for` of line
\* 54 is outside the try of line 55, so the exception is caught at line
\* 113.  The list has been mutated in place by the records read so far.
StreamFails(run) ==
    /\ run.faults
    /\ pc = "stream"
    /\ pc' = AfterFile(file)
    /\ file' = file + 1
    /\ log' = <<Line("Error processing file", "parser")>>
    /\ UNCHANGED <<nread, vector_batch, upserts, embed_calls, opened, exit_code, appended, env, purevars>>

\* The parser is exhausted: process_file_streaming returns vector_batch.
EndOfFile(run) ==
    /\ pc = "stream"
    /\ pc' = AfterFile(file)
    /\ file' = file + 1
    /\ log' = <<>>
    /\ UNCHANGED <<nread, vector_batch, upserts, embed_calls, opened, exit_code, appended, env, purevars>>

(***************************************************************************)
(* process_file_streaming: one iteration of `for doc in parser`            *)
(* (lines 54-90), one action per way the iteration can end                 *)
(***************************************************************************)
Yields(run, doc) ==
    /\ pc = "stream"
    /\ nread < run.records
    /\ doc \in run.docs
    /\ nread' = nread + 1

\* clean_document raises (line 56); caught at line 89.
RecordCleanRaises(run) ==
    \E doc \in run.docs :
        /\ Yields(run, doc)
        /\ CleanRaises(doc)
        /\ log' = <<Line("Error processing record", "clean_document")>>
        /\ UNCHANGED <<pc, file, vector_batch, upserts, embed_calls, opened, exit_code, appended, env, purevars>>

\* Mutant: the warning is logged but the `continue` is missing.
RecordSkipped_FallsThrough(run) ==
    \E doc \in run.docs, embedding \in Embeddings :
        /\ Yields(run, doc)
        /\ ~CleanRaises(doc)
        /\ GateRejects(clean_document(doc))
        /\ embed_calls' = embed_calls + 1
        /\ vector_batch' = Append(vector_batch,
                MakeVector(clean_document(doc), embedding, nread + 1))
        /\ appended' = Append(appended,
                MakeVector(clean_document(doc), embedding, nread + 1))
        /\ log' = <<Line("Skipping record with missing fields", ""),
                    Line("Generating embedding", "")>>
        /\ UNCHANGED <<pc, file, upserts, opened, exit_code, env, purevars>>

\* The gate of lines 58-64 holds: warning and `continue`.
RecordSkipped(run) ==
    \E doc \in run.docs :
        /\ Yields(run, doc)
        /\ ~CleanRaises(doc)
        /\ GateRejects(clean_document(doc))
        /\ log' = <<Line("Skipping record with missing fields", "")>>
        /\ UNCHANGED <<pc, file, vector_batch, upserts, embed_calls, opened, exit_code, appended, env, purevars>>

Accepted(doc) == ~CleanRaises(doc) /\ ~GateRejects(clean_document(doc))

\* Mutant: a zero vector is queued in place of the missing embedding.
RecordEmbedFails_ZeroVector(run) ==
    \E doc \in run.docs :
        /\ run.faults
        /\ Yields(run, doc)
        /\ Accepted(doc)
        /\ embed_calls' = embed_calls + 1
        /\ vector_batch' = Append(vector_batch,
                MakeVector(clean_document(doc), <<0, 0>>, nread + 1))
        /\ appended' = Append(appended,
                MakeVector(clean_document(doc), <<0, 0>>, nread + 1))
        /\ log' = <<Line("Generating embedding", ""),
                    Line("Error processing record", "generate_embedding")>>
        /\ UNCHANGED <<pc, file, upserts, opened, exit_code, env, purevars>>

\* generate_embedding raises (the request fails or the response is
\* malformed, lines 29-35); caught at line 89.
RecordEmbedFails(run) ==
    \E doc \in run.docs :
        /\ run.faults
        /\ Yields(run, doc)
        /\ Accepted(doc)
        /\ embed_calls' = embed_calls + 1
        /\ log' = <<Line("Generating embedding", ""),
                    Line("Error processing record", "generate_embedding")>>
        /\ UNCHANGED <<pc, file, vector_batch, upserts, opened, exit_code, appended, env, purevars>>

\* The embedding is returned, then json.dumps raises inside
\* create_metadata (line 82); caught at line 89.
RecordMetadataRaises(run) ==
    \E doc \in run.docs :
        /\ Yields(run, doc)
        /\ Accepted(doc)
        /\ MetadataRaises(clean_document(doc))
        /\ embed_calls' = embed_calls + 1
        /\ log' = <<Line("Generating embedding", ""),
                    Line("Error processing record", "create_metadata")>>
        /\ UNCHANGED <<pc, file, vector_batch, upserts, opened, exit_code, appended, env, purevars>>

\* The vector is built and appended (lines 77-84).
Appended(doc, embedding) ==
    Append(vector_batch, MakeVector(clean_document(doc), embedding, nread + 1))

Embeds(run, doc) ==
    /\ Yields(run, doc)
    /\ Accepted(doc)
    /\ ~MetadataRaises(clean_document(doc))
    /\ embed_calls' = embed_calls + 1

\* The record of what line 84 has appended so far.
Recorded(doc, embedding) ==
    Append(appended, MakeVector(clean_document(doc), embedding, nread + 1))

\* The vector is appended and the list is still shorter than the
\* capacity (line 86 is false).
RecordQueued(run) ==
    \E doc \in run.docs, embedding \in Embeddings :
        /\ Embeds(run, doc)
        /\ ~BatchFull(Appended(doc, embedding), run.batch)
        /\ vector_batch' = Appended(doc, embedding)
        /\ appended' = Recorded(doc, embedding)
        /\ log' = <<Line("Generating embedding", "")>>
        /\ UNCHANGED <<pc, file, upserts, opened, exit_code, env, purevars>>

\* The vector is appended, the list is full, index.upsert returns and the
\* submitted slice is deleted (lines 86-88, 43-45).
RecordFlushed(run) ==
    \E doc \in run.docs, embedding \in Embeddings :
        /\ Embeds(run, doc)
        /\ BatchFull(Appended(doc, embedding), run.batch)
        /\ upserts' = Append(upserts,
                Request(FirstBatch(Appended(doc, embedding), run.batch), TRUE, FALSE))
        /\ vector_batch' = DelFirstBatch(Appended(doc, embedding), run.batch)
        /\ appended' = Recorded(doc, embedding)
        /\ log' = <<Line("Generating embedding", ""),
                    Line("Upserting batch", ""), Line("Upsert response", "")>>
        /\ UNCHANGED <<pc, file, opened, exit_code, env, purevars>>

\* Mutant: the submitted slice is deleted although the call raised.
AfterFailedUpsert_Deletes(batch, cap) == DelFirstBatch(batch, cap)

\* What the list holds once index.upsert has raised at line 87: line 88
\* is not reached, the handler of line 89 changes nothing.
AfterFailedUpsert(batch, cap) == batch

\* Mutant: the flush sits outside the try of line 55, so the exception of
\* index.upsert ends process_file_streaming and is caught at line 113.
RecordFlushFails_Propagates(run) ==
    \E doc \in run.docs, embedding \in Embeddings :
        /\ run.faults
        /\ Embeds(run, doc)
        /\ BatchFull(Appended(doc, embedding), run.batch)
        /\ upserts' = Append(upserts,
                Request(FirstBatch(Appended(doc, embedding), run.batch), FALSE, FALSE))
        /\ vector_batch' = Appended(doc, embedding)
        /\ appended' = Recorded(doc, embedding)
        /\ pc' = AfterFile(file)
        /\ file' = file + 1
        /\ log' = <<Line("Generating embedding", ""), Line("Upserting batch", ""),
                    Line("Error processing file", "index.upsert")>>
        /\ UNCHANGED <<opened, exit_code, env, purevars>>

\* The vector is appended, the list is full and index.upsert raises
\* (line 44): the exception is caught at line 89.
RecordFlushFails(run) ==
    \E doc \in run.docs, embedding \in Embeddings :
        /\ run.faults
        /\ Embeds(run, doc)
        /\ BatchFull(Appended(doc, embedding), run.batch)
        /\ upserts' = Append(upserts,
                Request(FirstBatch(Appended(doc, embedding), run.batch), FALSE, FALSE))
        /\ vector_batch' = AfterFailedUpsert(Appended(doc, embedding), run.batch)
        /\ appended' = Recorded(doc, embedding)
        /\ log' = <<Line("Generating embedding", ""),
                    Line("Upserting batch", ""),
                    Line("Error processing record", "index.upsert")>>
        /\ UNCHANGED <<pc, file, opened, exit_code, env, purevars>>

(***************************************************************************)
(* upsert_properties lines 116-121 and the __main__ block                  *)
(***************************************************************************)
\* Mutant: the `if vector_batch:` of line 117 is missing.
DrainEmpty_Upserts(run) ==
    /\ pc = "drain"
    /\ vector_batch = <<>>
    /\ upserts' = Append(upserts, Request(vector_batch, TRUE, TRUE))
    /\ pc' = "done"
    /\ log' = <<Line("Upserting batch", ""), Line("Upsert response", ""),
                Line("Upserted final batch of remaining vectors.", ""),
                Line("Data upsert completed.", "")>>
    /\ exit_code' = <<0>>
    /\ UNCHANGED <<file, nread, vector_batch, embed_calls, opened, appended, env, purevars>>

\* `if vector_batch:` is false.
DrainEmpty(run) ==
    /\ pc = "drain"
    /\ vector_batch = <<>>
    /\ pc' = "done"
    /\ log' = <<Line("Data upsert completed.", "")>>
    /\ exit_code' = <<0>>
    /\ UNCHANGED <<file, nread, vector_batch, upserts, embed_calls, opened, appended, env, purevars>>

\* Mutant: the end-of-run call slices like the mid-stream one.
Remainder_Sliced(batch, cap) == FirstBatch(batch, cap)

\* The vectors passed to upsert_batch at line 118: the whole list.
Remainder(batch, cap) == batch

\* The remaining vectors are upserted; the list is not cleared.
DrainOk(run) ==
    /\ pc = "drain"
    /\ vector_batch # <<>>
    /\ upserts' = Append(upserts, Request(Remainder(vector_batch, run.batch), TRUE, TRUE))
    /\ pc' = "done"
    /\ log' = <<Line("Upserting batch", ""), Line("Upsert response", ""),
                Line("Upserted final batch of remaining vectors.", ""),
                Line("Data upsert completed.", "")>>
    /\ exit_code' = <<0>>
    /\ UNCHANGED <<file, nread, vector_batch, embed_calls, opened, appended, env, purevars>>

\* index.upsert raises at line 118: nothing catches it inside
\* upsert_properties, the handler of line 128 logs and exits.
DrainFails(run) ==
    /\ run.faults
    /\ pc = "drain"
    /\ vector_batch # <<>>
    /\ upserts' = Append(upserts, Request(Remainder(vector_batch, run.batch), FALSE, TRUE))
    /\ pc' = "done"
    /\ log' = <<Line("Upserting batch", ""),
                Line("Error in upserting properties data", "index.upsert")>>
    /\ exit_code' = <<ExitOnError>>
    /\ UNCHANGED <<file, nread, vector_batch, embed_calls, opened, appended, env, purevars>>

Step(run) ==
    \/ LoadModules(run)
    \/ ConfigMissing(run)
    \/ OpenFile(run)
    \/ EndOfFile(run)
    \/ RecordQueued(run)
    \/ RecordFlushed(run)
    \/ DrainEmpty(run)
    \/ DrainOk(run)

Fault(run) ==
    \/ ClientInitFails(run)
    \/ OpenFails(run)
    \/ StreamFails(run)
    \/ RecordCleanRaises(run)
    \/ RecordSkipped(run)
    \/ RecordEmbedFails(run)
    \/ RecordMetadataRaises(run)
    \/ RecordFlushFails(run)
    \/ DrainFails(run)

Next == Step(FullRun) \/ Fault(FullRun)

Spec == Init /\ [][Next]_vars

\* Every call succeeds and every record is accepted, at the capacity of
\* the source.
NextNominal == Step(NominalRun)

SpecNominal == Init /\ [][NextNominal]_vars

\* The interpreter runs the single thread of the program until the
\* process exits: a step that can be taken is eventually taken.
NextLive == Step(LiveRun) \/ Fault(LiveRun)

SpecLive == Init /\ [][NextLive]_vars /\ WF_vars(NextLive)

(***************************************************************************)
(* Single calls of clean_document, of the gate, of create_metadata and of  *)
(* safe_num, on arguments drawn from the sets below                        *)
(***************************************************************************)
\* What a top-level identity key may hold: nothing, a blank string, a
\* string to be stripped.  `tag` tells the four keys apart.
TopChoices(tag) == {NoneV, StrV(<<" ">>), StrV(<<" ", tag, "t", " ">>)}

\* What a key of "address" may hold: nothing, a number, a string.
NestedChoices(tag) == {NoneV, NumV(5), StrV(<<tag, "n">>)}

\* Records with every combination of top-level and nested identity keys.
IdentityDocs ==
    {[BlankDoc EXCEPT
        !.zpid = NumV(7), !.city = tc, !.state = ts,
        !.streetAddress = ta, !.zipcode = tz,
        !.address = MapAddr([NoAddrFields EXCEPT
            !.city = nc, !.state = ns, !.streetAddress = na, !.zipcode = nz])] :
      tc \in TopChoices("c"), ts \in TopChoices("s"),
      ta \in TopChoices("a"), tz \in TopChoices("z"),
      nc \in NestedChoices("c"), ns \in NestedChoices("s"),
      na \in NestedChoices("a"), nz \in NestedChoices("z")}

ZpidChoices == {NoneV, NumV(0), NumV(7), StrV(<<"0">>), StrV(<<"n", "a", "n">>), BigV}

YearChoices ==
    {NoneV, StrV(<<"o", "l", "d">>), NumV(0 - 1), NumV(1799), NumV(1800),
     StrV(<<" ", "1", "8", "0", "0">>), DecV(1900), NumV(current_year + 1),
     NumV(current_year + 2), StrV(<<"N", "a", "N">>), BigV}

PriceChoices ==
    {NoneV, NumV(9999), NumV(10000), StrV(<<"1", "0", "0", "0", "0">>),
     NumV(10000000), NumV(10000001)}

\* Complete listings with every combination of zpid, yearBuilt and price.
NumericDocs ==
    {[NestedDoc EXCEPT !.zpid = z, !.yearBuilt = y, !.price = p] :
      z \in ZpidChoices, y \in YearChoices, p \in PriceChoices}

\* Records of unusual shape: not an object, "address" null, "address"
\* missing, pass-through address keys holding a string, an int, a Decimal.
StructuralDocs ==
    {[BlankDoc EXCEPT !.t = "other"], BlankDoc, FlatDoc,
     [NestedDoc EXCEPT !.address = OtherAddr],
     [FlatDoc EXCEPT !.address = OtherAddr],
     [NestedDoc EXCEPT !.address.m.neighborhood = StrV(<<"H">>)],
     [NestedDoc EXCEPT !.address.m.community = NumV(3)],
     [NestedDoc EXCEPT !.address.m.subdivision = DecV(4)],
     [NestedDoc EXCEPT !.zpid = NumV(0), !.address.m.neighborhood = DecV(4)]}

\* What a city or state key may hold when the data itself spells the
\* fallback: nothing, the word "Unknown" with padding, a name.
LiteralChoices(tag) == {NoneV, StrV(<<" ">> \o Unknown), StrV(<<tag, "x">>)}

\* Listings with a street address and a zipcode, and every combination of
\* top-level and nested city and state.
LiteralDocs ==
    {[NestedDoc EXCEPT
        !.city = tc, !.state = ts,
        !.address.m.city = nc, !.address.m.state = ns] :
      tc \in LiteralChoices("c"), ts \in LiteralChoices("s"),
      nc \in LiteralChoices("d"), ns \in LiteralChoices("t")}

RawDocs ==
    IdentityDocs \cup NumericDocs \cup StructuralDocs \cup StreamDocs \cup LiteralDocs

NumChoices ==
    {NoneV, BigV, DecV(10000), StrV(<<>>), StrV(<<"a", "b">>),
     StrV(<<" ", "1", "2", " ">>), StrV(<<"-", "5">>), StrV(<<"+", "7">>),
     StrV(<<"n", "a", "n">>), StrV(<<"-">>),
     NumV(0 - 1), NumV(0), NumV(20), NumV(21), NumV(99), NumV(100),
     NumV(9999), NumV(10000), NumV(10000000), NumV(10000001)}

\* Argument lists of safe_num: the bounds clean_document uses, and others.
NumArgs ==
    [val : NumChoices,
     fallback : {PyInt(0), PyInt(0 - 1)},
     min_val : {NoBound, Bound(0), Bound(100), Bound(10000)},
     max_val : {NoBound, Bound(20), Bound(20000), Bound(10000000)}]

\* No run is in progress.
RunAtRest ==
    /\ env = {}
    /\ pc = "idle"
    /\ file = 1
    /\ nread = 0
    /\ vector_batch = <<>>
    /\ upserts = <<>>
    /\ embed_calls = 0
    /\ appended = <<>>
    /\ opened = <<>>
    /\ log = <<>>
    /\ exit_code = <<>>

Pending == [stage |-> "called", ret |-> <<>>, metadata |-> <<>>]

InitCalls ==
    /\ RunAtRest
    /\ \/ fn = "clean_document" /\ input \in RawDocs
       \/ fn = "safe_num" /\ input \in NumArgs
    /\ output = Pending

\* clean_document(doc) returns (process_file_streaming line 56).
CallCleanReturns ==
    /\ fn = "clean_document"
    /\ output.stage = "called"
    /\ ~CleanRaises(input)
    /\ output' = [output EXCEPT !.stage = "cleaned", !.ret = clean_document(input)]
    /\ UNCHANGED <<runvars, fn, input>>

\* clean_document(doc) raises.
CallCleanRaises ==
    /\ fn = "clean_document"
    /\ output.stage = "called"
    /\ CleanRaises(input)
    /\ output' = [output EXCEPT !.stage = "raised"]
    /\ UNCHANGED <<runvars, fn, input>>

\* The `if` of process_file_streaming lines 58-64 on the cleaned record:
\* "skipped" when line 66 is reached, "accepted" when line 68 is.
CallGate ==
    /\ fn = "clean_document"
    /\ output.stage = "cleaned"
    /\ output' = [output EXCEPT
                    !.stage = IF GateRejects(output.ret) THEN "skipped" ELSE "accepted"]
    /\ UNCHANGED <<runvars, fn, input>>

\* create_metadata(clean_doc) returns.
CallMetadataReturns ==
    /\ fn = "clean_document"
    /\ output.stage = "cleaned"
    /\ ~MetadataRaises(output.ret)
    /\ output' = [output EXCEPT !.stage = "metadata",
                                !.metadata = create_metadata(output.ret)]
    /\ UNCHANGED <<runvars, fn, input>>

\* create_metadata(clean_doc) raises inside json.dumps.
CallMetadataRaises ==
    /\ fn = "clean_document"
    /\ output.stage = "cleaned"
    /\ MetadataRaises(output.ret)
    /\ output' = [output EXCEPT !.stage = "metadata raised"]
    /\ UNCHANGED <<runvars, fn, input>>

\* safe_num(val, fallback, min_val, max_val) returns.
CallSafeNumReturns ==
    /\ fn = "safe_num"
    /\ output.stage = "called"
    /\ ~SafeNumRaises(input.val)
    /\ output' = [output EXCEPT
                    !.stage = "returned",
                    !.ret = safe_num(input.val, input.fallback,
                                     input.min_val, input.max_val)]
    /\ UNCHANGED <<runvars, fn, input>>

\* safe_num raises: float() raised an exception line 15 does not name.
CallSafeNumRaises ==
    /\ fn = "safe_num"
    /\ output.stage = "called"
    /\ SafeNumRaises(input.val)
    /\ output' = [output EXCEPT !.stage = "raised"]
    /\ UNCHANGED <<runvars, fn, input>>

NextCalls ==
    \/ CallCleanReturns
    \/ CallCleanRaises
    \/ CallGate
    \/ CallMetadataReturns
    \/ CallMetadataRaises
    \/ CallSafeNumReturns
    \/ CallSafeNumRaises

SpecCalls == InitCalls /\ [][NextCalls]_vars

(***************************************************************************)
(* Properties                                                              *)
(***************************************************************************)
Range(seq) == {seq[i] : i \in 1..Len(seq)}

Reqs == 1..Len(upserts)

Logged(msg) == \E i \in 1..Len(log) : log[i].msg = msg

LoggedFrom(msg, arg) == \E i \in 1..Len(log) : log[i] = Line(msg, arg)

\* Some index.upsert request carried the vector.
Submitted(v) == \E i \in Reqs : v \in Range(upserts[i].vectors)

\* C1: every upsert issued while files are streamed carries exactly the
\* capacity, and the end-of-run upsert carries between 1 and capacity - 1
\* vectors (none is issued for an empty list).
C1_FlushSizes ==
    \A i \in Reqs :
        IF upserts[i].final
        THEN Len(upserts[i].vectors) \in 1..(SmallBatch - 1)
        ELSE Len(upserts[i].vectors) = SmallBatch

\* C2: the vectors of an upsert that failed during streaming are in no
\* later upsert; later batches hold only vectors queued afterwards.
C2_FailedBatchNeverResubmitted ==
    \A i \in Reqs, j \in Reqs :
        (i < j /\ ~upserts[i].ok /\ ~upserts[i].final)
            => Range(upserts[i].vectors) \cap Range(upserts[j].vectors) = {}

\* C3: whichever upsert fails, mid-stream or end-of-run, the run logs
\* 'Data upsert completed.' and exits with status 0.
C3_StoreFailureNeverPropagated ==
    (pc = "done" /\ \E i \in Reqs : ~upserts[i].ok)
        => (Logged("Data upsert completed.") /\ exit_code = <<0>>)

\* C4: once a record has been processed the list holds strictly fewer
\* vectors than the capacity, every attempted flush having removed
\* exactly the capacity.
C4_QueueBelowCapacity == Len(vector_batch) < SmallBatch

\* C5: when the run has ended, every vector that was appended to the list
\* has been passed to at least one upsert call.
C5_NothingLeftPending ==
    pc = "done" => \A i \in 1..Len(appended) : Submitted(appended[i])

\* A run that ended after a mid-stream upsert failed, with more vectors
\* appended than one batch holds.
C5_Witness ==
    /\ pc = "done"
    /\ Len(appended) > SmallBatch
    /\ \E i \in Reqs : ~upserts[i].ok /\ ~upserts[i].final
    /\ \E i \in Reqs : upserts[i].final

\* The requests issued while streaming, in order.
Streamed == SelectSeq(upserts, LAMBDA r : ~r.final)

\* C6: with every call succeeding and N vectors appended so far, exactly
\* N div BATCH_SIZE upserts have been issued while streaming, the k-th
\* carrying the k-th run of BATCH_SIZE appended vectors; the run ends
\* with one more upsert of the N mod BATCH_SIZE remaining vectors exactly
\* when that number is not zero.
C6_NominalFlushes ==
    LET N == Len(appended)
        full == N \div BATCH_SIZE
    IN  /\ Len(Streamed) = full
        /\ \A k \in 1..full :
              /\ upserts[k].ok /\ ~upserts[k].final
              /\ upserts[k].vectors =
                    SubSeq(appended, (k - 1) * BATCH_SIZE + 1, k * BATCH_SIZE)
        /\ pc # "done" => Len(upserts) = full
        /\ pc = "done" =>
              IF N % BATCH_SIZE = 0
              THEN Len(upserts) = full
              ELSE /\ Len(upserts) = full + 1
                   /\ upserts[full + 1].final
                   /\ upserts[full + 1].vectors =
                         SubSeq(appended, full * BATCH_SIZE + 1, N)

\* 101 records over the four files: upserts of 50, 50 and 1.
C6_Witness ==
    /\ pc = "done"
    /\ Len(appended) = 2 * BATCH_SIZE + 1
    /\ Len(upserts) = 3
    /\ Len(upserts[1].vectors) = BATCH_SIZE
    /\ Len(upserts[2].vectors) = BATCH_SIZE
    /\ Len(upserts[3].vectors) = 1

\* C7: a step in which generate_embedding raises leaves the list as it
\* was, issues no upsert, makes exactly one embedding request, queues no
\* vector, and leaves the loop over the same file running.
C7_EmbeddingFailureIsolated ==
    [][LoggedFrom("Error processing record", "generate_embedding")'
          => /\ vector_batch' = vector_batch
             /\ appended' = appended
             /\ upserts' = upserts
             /\ embed_calls' = embed_calls + 1
             /\ nread' = nread + 1
             /\ pc' = "stream" /\ file' = file /\ exit_code' = <<>>]_vars

\* An embedding failure with vectors pending, among them the leftovers of
\* a failed upsert.
C7_Witness ==
    /\ LoggedFrom("Error processing record", "generate_embedding")
    /\ Len(vector_batch) >= SmallBatch

\* C8: a step in which opening or streaming a file fails leaves the list
\* as it was and moves on to the next file; files are opened one after
\* the other in list order, all of them before the end-of-run code runs,
\* and every vector that was pending has been submitted when the run ends.
C8_FileFailureConfined ==
    /\ [][Logged("Error processing file")'
            => /\ vector_batch' = vector_batch
               /\ upserts' = upserts
               /\ file' = file + 1
               /\ pc' = AfterFile(file)
               /\ exit_code' = <<>>]_vars
    /\ [](\A i \in 1..Len(opened) : opened[i] = i)
    /\ [](pc \in {"drain", "done"} => Len(opened) = NumFiles)
    /\ [][Logged("Error processing file")'
            => (\A i \in 1..Len(vector_batch) : vector_batch[i] \in Range(appended))]_vars
    /\ [](pc = "done" => \A v \in Range(appended) : Submitted(v))

\* The parser of a file other than the last failed with vectors pending.
C8_Witness ==
    /\ LoggedFrom("Error processing file", "parser")
    /\ pc = "open"
    /\ vector_batch # <<>>

\* C9: a step that takes a record from the parser, whatever stage of its
\* processing raises, stays inside the loop over the current file, and a
\* step that logs 'Error processing record' is such a step.
C9_RecordErrorKeepsStreaming ==
    [][/\ nread' # nread
          => /\ pc = "stream" /\ pc' = "stream"
             /\ file' = file
             /\ opened' = opened
             /\ nread' = nread + 1
             /\ exit_code' = <<>>
       /\ Logged("Error processing record")' => nread' # nread]_vars

\* The upsert of a full batch raised and the file is still being read.
C9_Witness ==
    /\ LoggedFrom("Error processing record", "index.upsert")
    /\ pc = "stream"
    /\ nread < MaxRecords

\* C10: a step in which the gate rejects the record makes no embedding
\* request, appends nothing, issues no upsert and leaves the list as it was.
C10_RejectedRecordHasNoEffect ==
    [][Logged("Skipping record with missing fields")'
          => /\ embed_calls' = embed_calls
             /\ vector_batch' = vector_batch
             /\ appended' = appended
             /\ upserts' = upserts
             /\ pc' = pc /\ file' = file /\ opened' = opened
             /\ exit_code' = exit_code]_vars

\* A record was rejected while vectors were pending.
C10_Witness ==
    /\ Logged("Skipping record with missing fields")
    /\ vector_batch # <<>>

\* C11: with the configuration present and no upsert failing, whatever
\* records and files fail, the loop reaches every file in list order, the
\* end-of-run code is reached from the loop, and the process exits with
\* status 0 after logging completion.
C11_RunCompletes ==
    /\ [](pc \in {"drain", "done"} => opened = [i \in 1..NumFiles |-> i])
    /\ [][pc' = "done" => pc = "drain"]_vars
    /\ []((pc = "done" /\ \A i \in Reqs : upserts[i].ok)
            => (exit_code = <<0>> /\ Logged("Data upsert completed.")))
    /\ (pc = "open" ~> pc = "drain")
    /\ (pc = "drain" ~> pc = "done")

\* A run that exited with 0 although records failed after their
\* embedding request, every record having been read and upserts issued.
C11_Witness ==
    /\ pc = "done"
    /\ exit_code = <<0>>
    /\ nread = LiveRecords
    /\ embed_calls > Len(appended)
    /\ upserts # <<>>
    /\ \A i \in Reqs : upserts[i].ok

\* The credential of the embedding provider and that of the vector store.
Credentials == {"GOOGLE_AI_API_KEY", "PINECONE_API_KEY"}

\* The process exited during module initialisation with a non-zero
\* status, before any file was opened, any embedding requested, any
\* upsert issued.
AbortedBeforeAnyWork ==
    /\ pc = "aborted"
    /\ exit_code # <<>> /\ exit_code # <<0>>
    /\ opened = <<>> /\ nread = 0 /\ embed_calls = 0 /\ upserts = <<>>

\* C12 as stated: a run with a credential absent only ever aborts before
\* any work, and with the two credentials present the run is not stopped
\* by its configuration checks.
C12_TwoCredentialsSuffice ==
    /\ pc = "aborted" => AbortedBeforeAnyWork
    /\ ~(Credentials \subseteq env) => pc \in {"load", "aborted"}
    /\ (Credentials \subseteq env /\ pc = "aborted") => LoggedFrom("Traceback", "client")

\* C12, amended: a run with any of the four configuration variables
\* absent only ever aborts before any work, and with the four present the
\* run is stopped during initialisation only by a client set-up call
\* that raises.
C12_ConfigurationRequired ==
    /\ pc = "aborted" => AbortedBeforeAnyWork
    /\ ~(ConfigKeys \subseteq env) => pc \in {"load", "aborted"}
    /\ (ConfigKeys \subseteq env /\ pc = "aborted") => LoggedFrom("Traceback", "client")

\* Both credentials are set, PINECONE_INDEX is not, and the run aborted.
C12_Witness ==
    /\ AbortedBeforeAnyWork
    /\ Credentials \subseteq env
    /\ "PINECONE_INDEX" \notin env

\* C13: as long as no vector has been appended, no upsert has been issued,
\* during streaming or at the end of the run.
C13_NoVectorNoUpsert == appended = <<>> => upserts = <<>>

\* A run ended after reading every record, embedding requests included,
\* without a single vector appended.
C13_Witness ==
    /\ pc = "done"
    /\ nread = MaxRecords
    /\ embed_calls > 0
    /\ appended = <<>>

\* The cleaned record a call produced has gone through the gate.
Gated == fn = "clean_document" /\ output.stage \in {"accepted", "skipped"}

\* A Python number that is the number zero.
IsZero(x) == x.ty \in {"int", "float"} /\ x.v = 0

\* C14: a cleaned record goes on to the embedding exactly when its city,
\* state, address.streetAddress and address.zipcode all differ from
\* "Unknown" and its zpid is not 0.
C14_GateCriterion ==
    Gated =>
        (output.stage = "accepted"
            <=> /\ output.ret.city # Unknown
                /\ output.ret.state # Unknown
                /\ output.ret.address.streetAddress # Unknown
                /\ output.ret.address.zipcode # Unknown
                /\ ~IsZero(output.ret.zpid))

\* A record with its four identity fields known was rejected for its zpid
\* of 0 alone.
C14_Witness ==
    /\ Gated
    /\ output.stage = "skipped"
    /\ IsZero(output.ret.zpid)
    /\ output.ret.city # Unknown
    /\ output.ret.state # Unknown
    /\ output.ret.address.streetAddress # Unknown
    /\ output.ret.address.zipcode # Unknown

\* clean_document has been applied and has returned or raised.
CleanCalled == fn = "clean_document" /\ output.stage # "called"

StringKeys == {"city", "state", "homeStatus", "homeType", "listingDataSource",
               "description"}

AddressStringKeys == {"streetAddress", "city", "state", "zipcode"}

\* C15: clean_document returns on every raw record, with a Python number
\* in every numeric field and a non-empty string in every string field.
C15_CleanTotal ==
    CleanCalled =>
        /\ output.stage # "raised"
        /\ \A k \in NumericKeys : output.ret[k].ty \in {"int", "float", "nan"}
        /\ \A k \in StringKeys : Len(output.ret[k]) > 0
        /\ \A k \in AddressStringKeys : Len(output.ret.address[k]) > 0

\* safe_num has been applied and has returned or raised.
NumCalled == fn = "safe_num" /\ output.stage # "called"

\* The value of an argument that holds a number: an int, a Decimal, or a
\* string that spells one.
Converts(val) ==
    \/ val.t \in {"num", "dec", "big"}
    \/ val.t = "str" /\ strip(val.s) # <<>> /\ FloatOk(val)

\* C16: safe_num returns the fallback when the argument cannot be
\* converted or its value lies below min_val or above max_val, and the
\* converted value itself otherwise; min_val and max_val are accepted.
C16_RejectionWindow ==
    NumCalled =>
        /\ output.stage = "returned"
        /\ IF ~Converts(input.val)
           THEN output.ret = input.fallback
           ELSE LET n == Float(input.val)
                IN  IF \/ input.min_val.given /\ n.ty # "nan" /\ n.v < input.min_val.v
                       \/ input.max_val.given /\ n.ty # "nan" /\ n.v > input.max_val.v
                    THEN output.ret = input.fallback
                    ELSE output.ret = n

\* The yearBuilt argument spells a number between 1800 and next year.
YearInRange(val) ==
    /\ FloatOk(val)
    /\ Float(val).ty = "float"
    /\ Float(val).v >= 1800
    /\ Float(val).v <= current_year + 1

\* C17: a record cleaned by clean_document has the numeric yearBuilt of
\* the raw record when that lies in [1800, current_year + 1], and 0 on
\* every other input.
C17_YearBuiltWindow ==
    (CleanCalled /\ output.stage # "raised") =>
        IF YearInRange(input.yearBuilt)
        THEN /\ output.ret.yearBuilt.ty = "float"
             /\ output.ret.yearBuilt.v = Float(input.yearBuilt).v
        ELSE IsZero(output.ret.yearBuilt)

\* The value is a string with something other than whitespace in it.
NonBlank(val) == val.t = "str" /\ \E i \in 1..Len(val.s) : val.s[i] \notin Whitespace

\* The trimmed first value when non-blank, else the trimmed second value
\* when non-blank, else "Unknown".
Chain(first, second) ==
    IF NonBlank(first) THEN strip(first.s)
    ELSE IF NonBlank(second) THEN strip(second.s)
    ELSE Unknown

\* C18: a cleaned record has city and state taken from the top-level key,
\* else from the key of "address", else "Unknown", and its four address
\* strings taken from the key of "address", else from the top-level key,
\* else "Unknown"; every value trimmed, blank values passed over.
C18_FallbackChains ==
    (CleanCalled /\ output.stage # "raised") =>
        /\ output.ret.city = Chain(input.city, input.address.m.city)
        /\ output.ret.state = Chain(input.state, input.address.m.state)
        /\ \A k \in AddressStringKeys :
              output.ret.address[k] = Chain(input.address.m[k], input[k])

\* A record whose city exists only inside "address" has been cleaned with
\* that city, and one of its address strings has come from the top level.
C18_Witness ==
    /\ CleanCalled
    /\ output.stage # "raised"
    /\ input.city = NoneV
    /\ NonBlank(input.address.m.city)
    /\ output.ret.city = strip(input.address.m.city.s)
    /\ output.ret.city # Unknown
    /\ ~NonBlank(input.address.m.zipcode)
    /\ NonBlank(input.zipcode)
    /\ output.ret.address.zipcode = strip(input.zipcode.s)
    /\ input.zipcode.s # strip(input.zipcode.s)

\* create_metadata has been applied to a cleaned record and has returned
\* or raised.
MetadataCalled ==
    fn = "clean_document" /\ output.stage \in {"metadata", "metadata raised"}

\* C19: create_metadata returns for every cleaned record, with the keys
\* of the cleaned record, the same value under every key but "address",
\* and one string under "address".
C19_MetadataFlat ==
    MetadataCalled =>
        /\ output.stage = "metadata"
        /\ DOMAIN output.metadata = DOMAIN output.ret
        /\ \A k \in DOMAIN output.ret \ {"address"} :
              output.metadata[k] = output.ret[k]
        /\ output.metadata.address \in Seq(STRING)

\* The vectors of the first n index.upsert requests, in call order.
RECURSIVE Delivered(_)
Delivered(n) == IF n = 0 THEN <<>> ELSE Delivered(n - 1) \o upserts[n].vectors

AllSucceed == \A i \in Reqs : upserts[i].ok

\* The vectors submitted so far followed by the ones still queued (none
\* is counted as queued once the end-of-run upsert has returned).
DeliveredThenQueued ==
    Delivered(Len(upserts)) \o (IF pc = "done" THEN <<>> ELSE vector_batch)

\* Each vector comes from a later read than the one before it.
InReadOrder(vectors) ==
    \A i, j \in 1..Len(vectors) : i < j => vectors[i].rec < vectors[j].rec

\* C20: while every index.upsert call has succeeded, the submitted batches
\* in call order followed by the queue are exactly the vectors appended,
\* unchanged and in the order their records were read, and at the end of
\* the run the submitted batches alone are; a record that is embedded
\* without error appends one vector, built from that record with
\* id = str(zpid), and no other step appends anything.
C20_FifoExactlyOnce ==
    /\ [](AllSucceed => DeliveredThenQueued = appended /\ InReadOrder(appended))
    /\ [][/\ appended' # appended =>
                /\ nread' = nread + 1
                /\ Len(appended') = Len(appended) + 1
                /\ SubSeq(appended', 1, Len(appended)) = appended
                /\ appended'[Len(appended')].rec = nread'
                /\ appended'[Len(appended')].id =
                      PyStr(appended'[Len(appended')].metadata.zpid)
          /\ (Logged("Generating embedding")' /\ ~Logged("Error processing record")')
                => appended' # appended]_vars

\* A file has ended with vectors still queued behind an earlier successful
\* flush, and the next file is about to be opened.
C20_Witness ==
    /\ pc = "open"
    /\ file > 1
    /\ upserts # <<>>
    /\ AllSucceed
    /\ vector_batch # <<>>
    /\ Len(appended) = Len(Delivered(Len(upserts))) + Len(vector_batch)

\* The step issued an index.upsert call from the streaming loop, and the
\* call raised.
FailedFlush ==
    /\ Len(upserts') = Len(upserts) + 1
    /\ ~upserts'[Len(upserts')].ok
    /\ ~upserts'[Len(upserts')].final

\* The step of a failed flush is absorbed by the handler of the record,
\* and the list after it is the list the call saw: the list before the
\* record followed by the vector of the record, with the vectors handed to
\* the call still at its head.
QueueKept ==
    /\ LoggedFrom("Error processing record", "index.upsert")'
    /\ pc' = pc /\ pc' = "stream"
    /\ file' = file
    /\ exit_code' = exit_code
    /\ Len(appended') = Len(appended) + 1
    /\ appended'[Len(appended')].rec = nread'
    /\ vector_batch' = Append(vector_batch, appended'[Len(appended')])
    /\ Len(upserts'[Len(upserts')].vectors) = SmallBatch
    /\ upserts'[Len(upserts')].vectors = SubSeq(vector_batch', 1, SmallBatch)

\* The step that shortens the list issued an index.upsert call that
\* returned.
ShortenedAfterSuccess ==
    Len(vector_batch') < Len(vector_batch) =>
        /\ Len(upserts') = Len(upserts) + 1
        /\ upserts'[Len(upserts')].ok

\* The vector of the record that triggered the flush is one of the
\* vectors handed to the call.
TriggerHanded ==
    appended'[Len(appended')] \in Range(upserts'[Len(upserts')].vectors)

Cleaned == CleanCalled /\ output.stage # "raised"

\* The raw value is a string that trims to the word "Unknown".
SpellsUnknown(val) == val.t = "str" /\ strip(val.s) = Unknown

\* C22 as stated: in every cleaned record city is "Unknown" exactly when
\* address.city is, and state exactly when address.state is; hence none
\* of the four address strings of a record the gate accepts is "Unknown".
C22_UnknownTogether ==
    Cleaned =>
        /\ \A k \in {"city", "state"} :
              output.ret[k] = Unknown <=> output.ret.address[k] = Unknown
        /\ output.stage = "accepted" =>
              \A k \in AddressStringKeys : output.ret.address[k] # Unknown

\* C22, amended: the two are "Unknown" together, and exactly when neither
\* source holds a non-blank string, for a record whose top-level and
\* nested values of the key do not spell "Unknown"; a record the gate
\* accepts has address.streetAddress and address.zipcode different from
\* "Unknown", and its address.city (address.state) is "Unknown" exactly
\* when the nested value spells it.
C22_UnknownOnlyFromLiteral ==
    Cleaned =>
        /\ \A k \in {"city", "state"} :
              (~SpellsUnknown(input[k]) /\ ~SpellsUnknown(input.address.m[k])) =>
                  /\ output.ret[k] = Unknown <=> output.ret.address[k] = Unknown
                  /\ output.ret[k] = Unknown <=>
                        (~NonBlank(input[k]) /\ ~NonBlank(input.address.m[k]))
        /\ output.stage = "accepted" =>
              /\ output.ret.address.streetAddress # Unknown
              /\ output.ret.address.zipcode # Unknown
              /\ \A k \in {"city", "state"} :
                    output.ret.address[k] = Unknown
                        <=> SpellsUnknown(input.address.m[k])

\* The gate has accepted a record whose top-level city is a name and whose
\* address.city is "Unknown".
C22_Witness ==
    /\ Cleaned
    /\ output.stage = "accepted"
    /\ NonBlank(input.city)
    /\ SpellsUnknown(input.address.m.city)
    /\ output.ret.city # Unknown
    /\ output.ret.address.city = Unknown
=============================================================================
